---- MODULE Spec2Model ----
(***************************************************************************)
(* The RSX parser of src/parser.rs as a state machine.                     *)
(*                                                                         *)
(* A token is a record [tok, span]; span is the token's index in the       *)
(* source text and is what an error is positioned at.  A ParseStream is a  *)
(* record [buf, cur]: the token buffer and the cursor into it.  Every      *)
(* grammar rule takes a ParseStream and returns                            *)
(*   [ok |-> TRUE,  input |-> the stream as the rule left it, val |-> ...] *)
(*   [ok |-> FALSE, input |-> the stream as the rule left it, err |-> ...] *)
(* so that a rule applied to the real stream moves the real cursor even    *)
(* when it fails, and a rule applied to fork(input) moves nothing.         *)
(*                                                                         *)
(* The recursion node -> element -> node is unfolded into an explicit      *)
(* stack of open elements and a control point pc.                          *)
(*                                                                         *)
(* What syn does is modelled token by token: a punctuation token is one    *)
(* character, a brace group is one token, and an expression (ExprLit, the  *)
(* Expr of an attribute value) is one literal or path token. Expressions   *)
(* of several tokens (binary operators, casts with `as`, struct literals)  *)
(* are not in the model.                                                   *)
(***************************************************************************)
EXTENDS Integers, Sequences, FiniteSets, TLC

VARIABLES
    config,   \* ParserConfig: [flatten]
    input,    \* the real ParseStream handed to Parser::parse
    stack,    \* the element() activations, innermost last
    pc,       \* the control point of the innermost activation
    nodes,    \* `nodes` of Parser::parse
    result    \* <<>> while parsing, <<Result<Vec<Node>>>> once parse returned

vars == <<config, input, stack, pc, nodes, result>>

(***************************************************************************)
(* Bounds of the model.                                                    *)
(***************************************************************************)
MaxChunks == 4

(***************************************************************************)
(* Tokens.                                                                 *)
(***************************************************************************)
Names == {"a", "b", "x", "y"}      \* plain identifiers
Keywords == {"type"}               \* identifiers that are reserved words
Literals == {"1"}                  \* literal expressions
BraceOk == {"{}"}                  \* a brace group holding a valid block
BraceBad == {"{!}"}                \* a brace group whose interior is no block
Braces == BraceOk \cup BraceBad

CallSite == 0                      \* the span of an error raised at end of input

OrphanMsg == "close tag has no corresponding open tag"
UnterminatedMsg == "open tag has no corresponding close tag"

(***************************************************************************)
(* ParseStream.                                                            *)
(***************************************************************************)
stream(tokens) == [buf |-> tokens, cur |-> 1]
is_empty(in) == in.cur > Len(in.buf)
peek(in) == in.buf[in.cur]
advance(in) == [in EXCEPT !.cur = @ + 1]
fork(in) == in
span_at(in) == IF is_empty(in) THEN CallSite ELSE peek(in).span

Ok(in, val) == [ok |-> TRUE, input |-> in, val |-> val]
Err(in, msg, span) == [ok |-> FALSE, input |-> in, err |-> [msg |-> msg, span |-> span]]

ExpectedMsg(ch) ==
    CASE ch = "<" -> "expected <"
      [] ch = ">" -> "expected >"
      [] ch = "/" -> "expected /"
      [] OTHER -> "expected ="

\* input.parse::<Token![ch]>()
parse_punct(in, ch) ==
    IF ~is_empty(in) /\ peek(in).tok = ch
    THEN Ok(advance(in), peek(in))
    ELSE Err(in, ExpectedMsg(ch), span_at(in))

\* input.parse::<Option<Token![ch]>>(): never fails, val is is_some()
parse_opt_punct(in, ch) ==
    IF ~is_empty(in) /\ peek(in).tok = ch
    THEN Ok(advance(in), TRUE)
    ELSE Ok(in, FALSE)

\* input.parse::<Ident>(): a reserved word is no Ident
parse_ident(in) ==
    IF ~is_empty(in) /\ peek(in).tok \in Names
    THEN Ok(advance(in), peek(in))
    ELSE Err(in, "expected identifier", span_at(in))

\* mutant: Ident::parse instead of Ident::parse_any
parse_any_plain(in) ==
    IF ~is_empty(in) /\ peek(in).tok \in Names
    THEN Ok(advance(in), peek(in))
    ELSE Err(in, "expected ident", span_at(in))

\* input.call(Ident::parse_any): reserved words too
parse_any(in) ==
    IF ~is_empty(in) /\ peek(in).tok \in Names \cup Keywords
    THEN Ok(advance(in), peek(in))
    ELSE Err(in, "expected ident", span_at(in))

\* input.parse::<TokenTree>(): any one token, a group counting as one
parse_token_tree(in) ==
    IF ~is_empty(in)
    THEN Ok(advance(in), peek(in))
    ELSE Err(in, "expected token tree", CallSite)

\* input.parse::<Expr>() of an attribute value: one literal or path token
parse_expr(in) ==
    IF ~is_empty(in) /\ peek(in).tok \in Literals
    THEN Ok(advance(in), [kind |-> "Lit", tok |-> peek(in).tok])
    ELSE IF ~is_empty(in) /\ peek(in).tok \in Names
    THEN Ok(advance(in), [kind |-> "Path", tok |-> peek(in).tok])
    ELSE Err(in, "expected expression", span_at(in))

\* Parser::parse2 around the result of a rule: the rule must have used the buffer up
parse2(r) ==
    IF r.ok /\ ~is_empty(r.input)
    THEN Err(r.input, "unexpected token", peek(r.input).span)
    ELSE r

(***************************************************************************)
(* Nodes.                                                                  *)
(***************************************************************************)
None == <<>>
Some(v) == <<v>>

NewNode(name, type, value, attrs, childs) ==
    [node_name |-> name, node_type |-> type, node_value |-> value,
     attributes |-> attrs, child_nodes |-> childs]

(***************************************************************************)
(* The leaf rules.                                                         *)
(***************************************************************************)
block_expr(in) ==
    LET group == parse_token_tree(in) IN
    IF ~group.ok THEN group
    ELSE IF group.val.tok \in BraceOk
    THEN Ok(group.input, [kind |-> "Block", tok |-> group.val.tok])
    ELSE Err(group.input, "expected block", group.val.span)

text(in) ==
    IF ~is_empty(in) /\ peek(in).tok \in Literals
    THEN Ok(advance(in),
            NewNode("#text", "Text", Some([kind |-> "Lit", tok |-> peek(in).tok]),
                    <<>>, <<>>))
    ELSE Err(in, "expected literal", span_at(in))

block(in) ==
    LET b == block_expr(in) IN
    IF ~b.ok THEN b
    ELSE Ok(b.input, NewNode("#block", "Block", Some(b.val), <<>>, <<>>))

tag_open_end(in) ==
    LET selfclosing == parse_opt_punct(in, "/")
        gt == parse_punct(selfclosing.input, ">")
    IN  IF ~gt.ok THEN gt ELSE Ok(gt.input, selfclosing.val)

tag_close(in) ==
    LET lt == parse_punct(in, "<") IN
    IF ~lt.ok THEN lt ELSE
    LET slash == parse_punct(lt.input, "/") IN
    IF ~slash.ok THEN slash ELSE
    LET ident == parse_ident(slash.input) IN
    IF ~ident.ok THEN ident ELSE
    LET gt == parse_punct(ident.input, ">") IN
    IF ~gt.ok THEN gt ELSE Ok(gt.input, ident.val)

\* mutant: the value always parsed as an expression, a brace group too
attribute_expr_only(in) ==
    LET key == parse_any(in) IN
    IF ~key.ok THEN key ELSE
    LET eq == parse_opt_punct(key.input, "=") IN
    IF ~eq.val THEN Ok(eq.input, [key |-> key.val.tok, value |-> None])
    ELSE LET value == parse_expr(eq.input)
         IN  IF ~value.ok THEN value
             ELSE Ok(value.input, [key |-> key.val.tok, value |-> Some(value.val)])

attribute(in) ==
    LET key == parse_any(in) IN
    IF ~key.ok THEN key ELSE
    LET eq == parse_opt_punct(key.input, "=") IN
    IF ~eq.val THEN Ok(eq.input, [key |-> key.val.tok, value |-> None])
    ELSE LET value == IF ~is_empty(eq.input) /\ peek(eq.input).tok \in Braces
                      THEN block_expr(eq.input)
                      ELSE parse_expr(eq.input)
         IN  IF ~value.ok THEN value
             ELSE Ok(value.input, [key |-> key.val.tok, value |-> Some(value.val)])

RECURSIVE attributes_loop(_, _)
attributes_loop(in, acc) ==
    IF ~attribute(fork(in)).ok THEN Ok(in, acc)
    ELSE LET a == attribute(in) IN
         IF ~a.ok THEN a
         ELSE LET acc2 == Append(acc, NewNode(a.val.key, "Attribute", a.val.value,
                                              <<>>, <<>>))
              IN  IF is_empty(a.input) THEN Ok(a.input, acc2)
                  ELSE attributes_loop(a.input, acc2)

attributes(in) ==
    IF is_empty(in) THEN Ok(in, <<>>) ELSE attributes_loop(in, <<>>)

(***************************************************************************)
(* The parser's state as one record, and its steps as functions of it.     *)
(***************************************************************************)
State == [input |-> input, stack |-> stack, pc |-> pc, nodes |-> nodes,
          result |-> result]

top(s) == s.stack[Len(s.stack)]

\* an Err leaving through every `?` up to the caller of Parser::parse
fail(s, err) ==
    [s EXCEPT !.pc = "done", !.stack = <<>>, !.nodes = <<>>,
              !.result = <<[ok |-> FALSE, err |-> err]>>]

\* parse: the loop head
parse(s) ==
    IF is_empty(s.input)
    THEN [s EXCEPT !.pc = "done", !.nodes = <<>>,
                   !.result = <<[ok |-> TRUE, val |-> s.nodes]>>]
    ELSE [s EXCEPT !.pc = "node"]

\* mutant: the children put before the node
flattened_children_first(cfg, n) ==
    IF cfg.flatten
    THEN n.child_nodes \o <<[n EXCEPT !.child_nodes = <<>>]>>
    ELSE <<n>>

\* node: what it returns for the node it parsed
flattened(cfg, n) ==
    IF cfg.flatten
    THEN <<[n EXCEPT !.child_nodes = <<>>]>> \o n.child_nodes
    ELSE <<n>>

\* node returns to parse's loop or to element's loop, which appends
node_return(cfg, s, n) ==
    IF s.stack = <<>>
    THEN [s EXCEPT !.nodes = @ \o flattened(cfg, n), !.pc = "parse"]
    ELSE [s EXCEPT !.stack[Len(s.stack)].child_nodes = @ \o flattened(cfg, n),
                   !.pc = "has_child_nodes"]

\* node: the choice between text, block and element
node(cfg, s) ==
    IF text(fork(s.input)).ok
    THEN LET r == text(s.input) IN
         IF ~r.ok THEN fail(s, r.err)
         ELSE node_return(cfg, [s EXCEPT !.input = r.input], r.val)
    ELSE IF block(fork(s.input)).ok
    THEN LET r == block(s.input) IN
         IF ~r.ok THEN fail(s, r.err)
         ELSE node_return(cfg, [s EXCEPT !.input = r.input], r.val)
    ELSE [s EXCEPT !.pc = "element"]

\* mutant: no check for a close tag
element_unchecked(s) == [s EXCEPT !.pc = "tag_open"]

\* element: the check for a close tag before the open tag
element(s) ==
    LET tag_close_ident == tag_close(fork(s.input)) IN
    IF tag_close_ident.ok
    THEN fail(s, [msg |-> OrphanMsg, span |-> tag_close_ident.val.span])
    ELSE [s EXCEPT !.pc = "tag_open"]

\* tag_open: `<` and the name
tag_open(s) ==
    LET lt == parse_punct(s.input, "<") IN
    IF ~lt.ok THEN fail(s, lt.err) ELSE
    LET ident == parse_ident(lt.input) IN
    IF ~ident.ok THEN fail(s, ident.err)
    ELSE [s EXCEPT !.input = ident.input,
                   !.pc = "tag_open_end",
                   !.stack = Append(@, [ident |-> ident.val, tokens |-> <<>>,
                                        attributes |-> <<>>, selfclosing |-> FALSE,
                                        child_nodes |-> <<>>])]

\* tag_open: the head of the scan loop, tag_open_end on the real stream
tag_open_scan(s) ==
    LET r == tag_open_end(s.input) IN
    IF r.ok
    THEN [s EXCEPT !.input = r.input, !.pc = "attributes",
                   !.stack[Len(s.stack)].selfclosing = r.val]
    ELSE [s EXCEPT !.input = r.input, !.pc = "push"]

\* mutant: the token tree read without being consumed
tag_open_push_peek(s) ==
    LET tt == parse_token_tree(fork(s.input)) IN
    IF ~tt.ok THEN fail(s, tt.err)
    ELSE [s EXCEPT !.pc = "tag_open_end",
                   !.stack[Len(s.stack)].tokens = Append(@, tt.val)]

\* tag_open: the body of the scan loop, one token tree into the buffer
tag_open_push(s) ==
    LET tt == parse_token_tree(s.input) IN
    IF ~tt.ok THEN fail(s, tt.err)
    ELSE [s EXCEPT !.input = tt.input, !.pc = "tag_open_end",
                   !.stack[Len(s.stack)].tokens = Append(@, tt.val)]

\* mutant: children and a close tag expected after a self-closing tag too
tag_open_attributes_children(s) ==
    LET r == parse2(attributes(stream(top(s).tokens))) IN
    IF ~r.ok THEN fail(s, r.err)
    ELSE [s EXCEPT !.stack[Len(s.stack)].attributes = r.val,
                   !.stack[Len(s.stack)].tokens = <<>>,
                   !.pc = "has_child_nodes"]

\* tag_open: the attribute rule over the buffer; element: self-closing or not
tag_open_attributes(s) ==
    LET r == parse2(attributes(stream(top(s).tokens))) IN
    IF ~r.ok THEN fail(s, r.err)
    ELSE [s EXCEPT !.stack[Len(s.stack)].attributes = r.val,
                   !.stack[Len(s.stack)].tokens = <<>>,
                   !.pc = IF top(s).selfclosing THEN "return" ELSE "has_child_nodes"]

\* mutant: any close tag ends the children
has_child_nodes_any_name(s) ==
    IF is_empty(s.input)
    THEN fail(s, [msg |-> UnterminatedMsg, span |-> top(s).ident.span])
    ELSE LET tag_close_ident == tag_close(fork(s.input)) IN
         IF tag_close_ident.ok
         THEN [s EXCEPT !.pc = "tag_close"]
         ELSE [s EXCEPT !.pc = "node"]

\* mutant: the end of the input not looked for
has_child_nodes_no_eof(s) ==
    LET tag_close_ident == tag_close(fork(s.input)) IN
    IF tag_close_ident.ok
    THEN IF top(s).ident.tok = tag_close_ident.val.tok
         THEN [s EXCEPT !.pc = "tag_close"]
         ELSE fail(s, [msg |-> OrphanMsg, span |-> tag_close_ident.val.span])
    ELSE [s EXCEPT !.pc = "node"]

\* element: the head of the child loop
has_child_nodes(s) ==
    IF is_empty(s.input)
    THEN fail(s, [msg |-> UnterminatedMsg, span |-> top(s).ident.span])
    ELSE LET tag_close_ident == tag_close(fork(s.input)) IN
         IF tag_close_ident.ok
         THEN IF top(s).ident.tok = tag_close_ident.val.tok
              THEN [s EXCEPT !.pc = "tag_close"]
              ELSE fail(s, [msg |-> OrphanMsg, span |-> tag_close_ident.val.span])
         ELSE [s EXCEPT !.pc = "node"]

\* element: the close tag after the child loop
element_close(s) ==
    LET r == tag_close(s.input) IN
    IF ~r.ok THEN fail(s, r.err)
    ELSE [s EXCEPT !.input = r.input, !.pc = "return"]

\* element: the Node it returns, handed on by node
element_return(cfg, s) ==
    LET tag == top(s)
        elem == NewNode(tag.ident.tok, "Element", None, tag.attributes,
                        tag.child_nodes)
    IN  node_return(cfg, [s EXCEPT !.stack = SubSeq(@, 1, Len(@) - 1)], elem)

(***************************************************************************)
(* The inputs: token sequences put together from at most MaxChunks chunks. *)
(***************************************************************************)
TagChunks ==
    { <<"<", "a", ">">>, <<"<", "/", "a", ">">>, <<"<", "/", "b", ">">>,
      <<"<", "a", "/", ">">>, <<"<", "b", ">", "1", "<", "/", "b", ">">>,
      <<"1">>, <<"{}">> }

AttrChunks ==
    { <<"x">>, <<"type", "=", "1">>, <<"y", "=", "{}">>, <<"/">>, <<"=">>,
      <<"1">>, <<"b">>, <<"{!}">> }

AttrEnds == { <<>>, <<"/", ">">>, <<">", "1", "<", "/", "a", ">">> }

RECURSIVE Flat(_)
Flat(cs) == IF cs = <<>> THEN <<>> ELSE Head(cs) \o Flat(Tail(cs))

ChunkSeqs(chunks, n) == UNION {[1..k -> chunks] : k \in 0..n}

Sources ==
    {Flat(cs) : cs \in ChunkSeqs(TagChunks, MaxChunks)}
    \cup {<<"<", "a">> \o Flat(cs) \o e :
              cs \in ChunkSeqs(AttrChunks, MaxChunks - 1), e \in AttrEnds}

Lex(src) == [i \in 1..Len(src) |-> [tok |-> src[i], span |-> i]]

(***************************************************************************)
(* The state machine.                                                      *)
(***************************************************************************)
Start(tokens) == [input |-> stream(tokens), stack |-> <<>>, pc |-> "parse",
                  nodes |-> <<>>, result |-> <<>>]

Become(s) ==
    /\ input' = s.input
    /\ stack' = s.stack
    /\ pc' = s.pc
    /\ nodes' = s.nodes
    /\ result' = s.result
    /\ UNCHANGED config

\* Parser::new(config): no input yet
Init ==
    /\ config \in [flatten : BOOLEAN]
    /\ input = stream(<<>>)
    /\ stack = <<>>
    /\ pc = "new"
    /\ nodes = <<>>
    /\ result = <<>>

\* the call of Parser::parse on a token stream
Call == pc = "new" /\ \E src \in Sources : Become(Start(Lex(src)))

Parse == pc = "parse" /\ Become(parse(State))
Node == pc = "node" /\ Become(node(config, State))
Element == pc = "element" /\ Become(element(State))
TagOpen == pc = "tag_open" /\ Become(tag_open(State))
TagOpenScan == pc = "tag_open_end" /\ Become(tag_open_scan(State))
TagOpenPush == pc = "push" /\ Become(tag_open_push(State))
TagOpenAttributes == pc = "attributes" /\ Become(tag_open_attributes(State))
HasChildNodes == pc = "has_child_nodes" /\ Become(has_child_nodes(State))
ElementClose == pc = "tag_close" /\ Become(element_close(State))
ElementReturn == pc = "return" /\ Become(element_return(config, State))

Next ==
    \/ Call
    \/ Parse
    \/ Node
    \/ Element
    \/ TagOpen
    \/ TagOpenScan
    \/ TagOpenPush
    \/ TagOpenAttributes
    \/ HasChildNodes
    \/ ElementClose
    \/ ElementReturn

Spec == Init /\ [][Next]_vars

(***************************************************************************)
(* Parser::parse as a function: the steps above, run until parse returns.  *)
(***************************************************************************)
Step(cfg, s) ==
    CASE s.pc = "parse" -> parse(s)
      [] s.pc = "node" -> node(cfg, s)
      [] s.pc = "element" -> element(s)
      [] s.pc = "tag_open" -> tag_open(s)
      [] s.pc = "tag_open_end" -> tag_open_scan(s)
      [] s.pc = "push" -> tag_open_push(s)
      [] s.pc = "attributes" -> tag_open_attributes(s)
      [] s.pc = "has_child_nodes" -> has_child_nodes(s)
      [] s.pc = "tag_close" -> element_close(s)
      [] s.pc = "return" -> element_return(cfg, s)

RECURSIVE Run(_, _)
Run(cfg, s) == IF s.pc = "done" THEN s ELSE Run(cfg, Step(cfg, s))

ParseResult(cfg, tokens) == Run(cfg, Start(tokens)).result[1]

(***************************************************************************)
(* What the claims are stated with.                                        *)
(***************************************************************************)
Source == [i \in 1..Len(input.buf) |-> input.buf[i].tok]
Cur == input.cur
Done == pc = "done"
Returned == result[1]
Top == stack[Len(stack)]

\* the tokens at p are a close tag </M>
CloseTagAt(p) ==
    /\ p + 3 <= Len(Source)
    /\ Source[p] = "<"
    /\ Source[p + 1] = "/"
    /\ Source[p + 2] \in Names
    /\ Source[p + 3] = ">"

Failure(msg, span) == <<[ok |-> FALSE, err |-> [msg |-> msg, span |-> span]]>>

RECURSIVE PreorderAll(_)
Preorder(n) == <<[n EXCEPT !.child_nodes = <<>>]>> \o PreorderAll(n.child_nodes)
PreorderAll(ns) ==
    IF ns = <<>> THEN <<>>
    ELSE Preorder(Head(ns)) \o PreorderAll(Tail(ns))

\* C2: parsing with flatten=true fails exactly when parsing with flatten=false
\* fails, with the same error, and otherwise returns the pre-order traversal
\* of the forest that flatten=false returns, every node with its child list
\* emptied and no Attribute node among them.
FlattenIsPreorder ==
    (Done /\ config.flatten) =>
        LET tree == ParseResult([flatten |-> FALSE], input.buf) IN
        /\ Returned.ok = tree.ok
        /\ ~tree.ok => Returned.err = tree.err
        /\ tree.ok =>
              /\ Returned.val = PreorderAll(tree.val)
              /\ \A i \in 1..Len(Returned.val) :
                    /\ Returned.val[i].child_nodes = <<>>
                    /\ Returned.val[i].node_type # "Attribute"

FlattenIsPreorderWitness ==
    /\ Done /\ config.flatten /\ Returned.ok
    /\ Len(ParseResult([flatten |-> FALSE], input.buf).val) = 1
    /\ Len(Returned.val) = 3
    /\ Returned.val[1].node_name = "a"
    /\ Returned.val[2].node_name = "b"
    /\ Returned.val[3].node_type = "Text"

\* every open element was opened by the open tag `<` NAME its frame names,
\* and an inner element was opened after the outer one
FramesAreOpenTags ==
    \A i \in 1..Len(stack) :
        /\ stack[i].ident.span \in 2..Len(Source)
        /\ Source[stack[i].ident.span] = stack[i].ident.tok
        /\ Source[stack[i].ident.span - 1] = "<"
        /\ stack[i].ident.span < Cur
        /\ i > 1 => stack[i - 1].ident.span < stack[i].ident.span

ElementA == NewNode("a", "Element", None, <<>>, <<>>)

\* C1: the close tag that ends an element names the element; a close tag
\* </M> met among the children of an open element N, M different from N,
\* fails the parse with `close tag has no corresponding open tag` at M, and
\* `<a></b>` fails so at `b`.
CloseTagMatchesOpenTag ==
    /\ []FramesAreOpenTags
    /\ [][ /\ (pc = "tag_close" /\ pc' = "return") =>
                 /\ CloseTagAt(Cur)
                 /\ Source[Cur + 2] = Top.ident.tok
                 /\ input'.cur = Cur + 4
           /\ (pc = "has_child_nodes" /\ CloseTagAt(Cur)
                 /\ Source[Cur + 2] # Top.ident.tok) =>
                 /\ pc' = "done"
                 /\ result' = Failure(OrphanMsg, Cur + 2) ]_vars
    /\ []((Done /\ Source = <<"<", "a", ">", "<", "/", "b", ">">>) =>
              result = Failure(OrphanMsg, 6))

CloseTagMatchesOpenTagWitness ==
    /\ Done
    /\ Source = <<"<", "a", ">", "1", "<", "/", "b", ">">>
    /\ result = Failure(OrphanMsg, 7)

\* C3: the input ending while an element awaits its close tag fails the
\* parse with `open tag has no corresponding close tag` at the name of the
\* innermost open element; `<a>1` fails at `a`, `<a><a>` at the second `a`.
UnterminatedOpenTag ==
    /\ []FramesAreOpenTags
    /\ [][ (pc = "has_child_nodes" /\ Cur > Len(Source)) =>
                 /\ pc' = "done"
                 /\ result' = Failure(UnterminatedMsg, Top.ident.span) ]_vars
    /\ []((Done /\ Source = <<"<", "a", ">", "1">>) =>
              result = Failure(UnterminatedMsg, 2))
    /\ []((Done /\ Source = <<"<", "a", ">", "<", "a", ">">>) =>
              result = Failure(UnterminatedMsg, 5))

UnterminatedOpenTagWitness ==
    /\ Done
    /\ Source = <<"<", "a", ">", "<", "a", ">", "1">>
    /\ result = Failure(UnterminatedMsg, 5)

\* C4: the element rule entered at a close tag </N> fails the parse with
\* `close tag has no corresponding open tag` at N and tries no open tag;
\* `</a>` alone fails at `a`.
OrphanCloseTag ==
    /\ [][ (pc = "element" /\ CloseTagAt(Cur)) =>
                 /\ pc' = "done"
                 /\ result' = Failure(OrphanMsg, Cur + 2) ]_vars
    /\ []((pc = "tag_open") => ~CloseTagAt(Cur))
    /\ []((Done /\ Source = <<"<", "/", "a", ">">>) =>
              result = Failure(OrphanMsg, 3))

OrphanCloseTagWitness ==
    /\ Done
    /\ Source = <<"1", "<", "/", "a", ">">>
    /\ result = Failure(OrphanMsg, 4)

\* C5: a self-closing open tag ends the element at once: no child is parsed
\* and no close tag consumed, the cursor stands right after `/>` and the
\* element has no children. `<a/>` and `<a></a>` both yield one Element `a`
\* without children, and `<a/></a>` fails at the orphan close tag.
SelfClosingElement ==
    /\ [][ (pc = "attributes" /\ Top.selfclosing /\ pc' # "done") =>
                 /\ pc' = "return"
                 /\ input' = input ]_vars
    /\ []((pc \in {"attributes", "return"} /\ Top.selfclosing) =>
              /\ Top.child_nodes = <<>>
              /\ Source[Cur - 2] = "/"
              /\ Source[Cur - 1] = ">")
    /\ []((Done /\ Source = <<"<", "a", "/", ">">>) =>
              result = <<[ok |-> TRUE, val |-> <<ElementA>>]>>)
    /\ []((Done /\ Source = <<"<", "a", ">", "<", "/", "a", ">">>) =>
              result = <<[ok |-> TRUE, val |-> <<ElementA>>]>>)
    /\ []((Done /\ Source = <<"<", "a", "/", ">", "<", "/", "a", ">">>) =>
              result = Failure(OrphanMsg, 7))

SelfClosingElementWitness ==
    /\ Done
    /\ Source = <<"<", "a", ">", "<", "a", "/", ">", "<", "/", "a", ">">>
    /\ Returned.ok
    /\ ~config.flatten
    /\ Returned.val = <<[ElementA EXCEPT !.child_nodes = <<ElementA>>]>>

\* the attribute range of the open tag whose terminator was just consumed:
\* the tokens after the name and before the terminator `>` or `/>`
RangeFirst == Top.ident.span + 1
RangeLast == IF Source[Cur - 2] = "/" THEN Cur - 3 ELSE Cur - 2
Range == SubSeq(Source, RangeFirst, RangeLast)

Keys == Names \cup Keywords

ValueOf(tok) ==
    IF tok \in Literals THEN [kind |-> "Lit", tok |-> tok]
    ELSE [kind |-> "Block", tok |-> tok]

\* a token sequence read as a sequence of attributes KEY, KEY=LITERAL and
\* KEY={...}: whether it is one, and the Attribute nodes it stands for
RECURSIVE AttributesOf(_)
AttributesOf(toks) ==
    IF toks = <<>> THEN [wf |-> TRUE, attrs |-> <<>>]
    ELSE IF toks[1] \notin Keys THEN [wf |-> FALSE, attrs |-> <<>>]
    ELSE IF Len(toks) >= 2 /\ toks[2] = "="
    THEN IF Len(toks) >= 3 /\ toks[3] \in Literals \cup BraceOk
         THEN LET rest == AttributesOf(SubSeq(toks, 4, Len(toks))) IN
              [wf |-> rest.wf,
               attrs |-> <<NewNode(toks[1], "Attribute", Some(ValueOf(toks[3])),
                                   <<>>, <<>>)>> \o rest.attrs]
         ELSE [wf |-> FALSE, attrs |-> <<>>]
    ELSE LET rest == AttributesOf(Tail(toks)) IN
         [wf |-> rest.wf,
          attrs |-> <<NewNode(toks[1], "Attribute", None, <<>>, <<>>)>>
                    \o rest.attrs]

\* content nodes hold no Attribute among their children, at any depth, and
\* an attribute list holds Attribute nodes only, each without children
RECURSIVE AttributesInPlace(_)
AttributesInPlace(ns) ==
    \A i \in 1..Len(ns) :
        /\ ns[i].node_type # "Attribute"
        /\ \A j \in 1..Len(ns[i].attributes) :
              /\ ns[i].attributes[j].node_type = "Attribute"
              /\ ns[i].attributes[j].child_nodes = <<>>
              /\ ns[i].attributes[j].attributes = <<>>
        /\ AttributesInPlace(ns[i].child_nodes)

RECURSIVE AttributeTokens(_)
AttributeTokens(attrs) ==
    IF attrs = <<>> THEN <<>>
    ELSE (IF Head(attrs).node_value = None
          THEN <<Head(attrs).node_name>>
          ELSE <<Head(attrs).node_name, "=", Head(attrs).node_value[1].tok>>)
         \o AttributeTokens(Tail(attrs))

\* C8: a trial parse that fails leaves the real cursor where it was: the
\* text and block trials of node, the close-tag trials of element and
\* has_child_nodes, and the tag_open_end trial of the scan in tag_open.
FailedTrialKeepsCursor ==
    [][ /\ (pc = "node" /\ pc' = "element") => input' = input
        /\ (pc = "element" /\ pc' = "tag_open") => input' = input
        /\ (pc = "has_child_nodes" /\ pc' = "node") => input' = input
        /\ (pc = "tag_open_end" /\ pc' = "push") => input' = input ]_vars

\* C9: when an open tag is parsed, the tokens between its name and its
\* terminator are exactly the tokens of its Attribute nodes: none is dropped.
AttributeRangeAccounted ==
    [][ (pc = "attributes" /\ pc' # "done") =>
            AttributeTokens(stack'[Len(stack)].attributes) = Range ]_vars

\* the grammar: node := text | block | element,
\* element := `<` NAME attr* tagEnd (node* closeTag)?, the close tag naming
\* the element. Each rule gives the position after what it matched, 0 for
\* no match.
RECURSIVE GrammarAttrs(_, _)
GrammarAttrs(src, p) ==
    IF p <= Len(src) /\ src[p] \in Keys
    THEN IF p + 1 <= Len(src) /\ src[p + 1] = "="
         THEN IF p + 2 <= Len(src) /\ src[p + 2] \in Literals \cup Names \cup BraceOk
              THEN GrammarAttrs(src, p + 3)
              ELSE 0
         ELSE GrammarAttrs(src, p + 1)
    ELSE p

GrammarCloseTag(src, p) ==
    /\ p + 3 <= Len(src)
    /\ src[p] = "<" /\ src[p + 1] = "/" /\ src[p + 2] \in Names /\ src[p + 3] = ">"

RECURSIVE GrammarNode(_, _), GrammarChildren(_, _, _)
GrammarNode(src, p) ==
    IF p > Len(src) THEN 0
    ELSE IF src[p] \in Literals \cup BraceOk THEN p + 1
    ELSE IF src[p] = "<" /\ p + 1 <= Len(src) /\ src[p + 1] \in Names
    THEN LET q == GrammarAttrs(src, p + 2) IN
         IF q = 0 \/ q > Len(src) THEN 0
         ELSE IF src[q] = "/" /\ q + 1 <= Len(src) /\ src[q + 1] = ">" THEN q + 2
         ELSE IF src[q] = ">" THEN GrammarChildren(src, q + 1, src[p + 1])
         ELSE 0
    ELSE 0
GrammarChildren(src, p, name) ==
    IF GrammarCloseTag(src, p)
    THEN IF src[p + 2] = name THEN p + 4 ELSE 0
    ELSE LET q == GrammarNode(src, p) IN
         IF q = 0 THEN 0 ELSE GrammarChildren(src, q, name)

RECURSIVE GrammarNodes(_, _)
GrammarNodes(src, p) ==
    IF p > Len(src) THEN TRUE
    ELSE LET q == GrammarNode(src, p) IN q # 0 /\ GrammarNodes(src, q)

WellFormed(src) == GrammarNodes(src, 1)

\* the printed form of a forest: every element with open and close tag
RECURSIVE PrintAll(_)
PrintNode(n) ==
    IF n.node_type = "Element"
    THEN <<"<", n.node_name>> \o AttributeTokens(n.attributes) \o <<">">>
         \o PrintAll(n.child_nodes) \o <<"<", "/", n.node_name, ">">>
    ELSE <<n.node_value[1].tok>>
PrintAll(ns) ==
    IF ns = <<>> THEN <<>> ELSE PrintNode(Head(ns)) \o PrintAll(Tail(ns))

\* a well-formed source with every `/>` of a tag NAME written `></NAME>`
RECURSIVE Canonical(_, _, _)
Canonical(src, i, name) ==
    IF i > Len(src) THEN <<>>
    ELSE IF src[i] = "/" /\ src[i - 1] # "<"
    THEN <<">", "<", "/", name, ">">> \o Canonical(src, i + 2, name)
    ELSE <<src[i]>> \o Canonical(src, i + 1,
                                  IF src[i] = "<" /\ src[i + 1] # "/"
                                  THEN src[i + 1] ELSE name)

Rank(p) ==
    CASE p = "attributes" -> 9
      [] p = "return" -> 8
      [] p \in {"parse", "has_child_nodes"} -> 7
      [] p \in {"node", "tag_close"} -> 6
      [] p = "element" -> 5
      [] p = "tag_open" -> 4
      [] p = "tag_open_end" -> 3
      [] p = "push" -> 2
      [] OTHER -> 0
Variant == 10 * (Len(input.buf) + 1 - input.cur) + Rank(pc)

\* C10: the parse ends: every step of a called parse brings it nearer to its
\* return, and a step is always there to take until it returns. A node that
\* is parsed moves the cursor forward, the scan of an open tag takes a token
\* with every turn, the cursor never moves back, and parse returns the nodes
\* with the input used up, or one error.
ParseTerminates ==
    /\ [][ pc # "new" =>
             /\ Variant' < Variant
             /\ input'.cur >= input.cur
             /\ (pc = "node" /\ pc' \in {"parse", "has_child_nodes"}) =>
                   input'.cur > input.cur
             /\ (pc = "return") =>
                   /\ pc' \in {"parse", "has_child_nodes"}
                   /\ input.cur > Top.ident.span
             /\ (pc = "push" /\ pc' # "done") =>
                   /\ pc' = "tag_open_end"
                   /\ input'.cur > input.cur
             /\ (pc = "tag_open_end" /\ pc' = "attributes") =>
                   input'.cur > input.cur ]_vars
    /\ [](/\ Variant >= 0
          /\ pc \in {"new", "parse", "node", "element", "tag_open", "tag_open_end",
                      "push", "attributes", "has_child_nodes", "tag_close",
                      "return", "done"}
          /\ pc \in {"tag_open_end", "push", "attributes", "has_child_nodes",
                      "tag_close", "return"} => stack # <<>>
          /\ Done <=> result # <<>>
          /\ Done => /\ Len(result) = 1
                     /\ Returned.ok => is_empty(input))

ParseTerminatesWitness ==
    /\ Done /\ Returned.ok
    /\ Len(Source) = 12
    /\ Len(Returned.val) >= 2

====
